---- MODULE Spec2Model ----
(***************************************************************************)
(* Model of the Todo client (App.jsx, TodoForm.jsx, TodoItem.jsx, api.js,  *)
(* TodoList.jsx) talking to a REST store over HTTP.                        *)
(*                                                                         *)
(* Every await in the source is a point where other handlers may run, so   *)
(* each handler is split at its await: the part before the await issues a  *)
(* request, the store answers it in a step of its own, and the part after  *)
(* the await (the continuation) runs when the response is delivered.       *)
(* Responses may be delivered in any order.                                *)
(*                                                                         *)
(* Texts are sequences of one-character strings so that trim() is computed *)
(* and not assumed.                                                        *)
(*                                                                         *)
(* The store is the REST service of the README (json-server over db.json): *)
(* it gives each created record the next free identifier, echoes the       *)
(* posted title, merges a PATCH into the stored record and returns it, and *)
(* may answer any request with a non-success status.  The status of a      *)
(* DELETE for an identifier it no longer holds is left open (404 or 2xx).  *)
(*                                                                         *)
(* last, held, added and removed are history variables: they record what   *)
(* happened and are read by no action.                                     *)
(***************************************************************************)
EXTENDS Integers, Sequences, FiniteSets, Bags, TLC

VARIABLES
    server,    \* the store's /todos collection (db.json), a sequence of records
    nextId,    \* the identifier the store gives to the next created record
    strictDev, \* the build: TRUE for a development build under React.StrictMode
    mounted,   \* App's mount effect has run
    todos,     \* App state: todos
    loading,   \* App state: loading
    error,     \* App state: error; NoError stands for null
    title,     \* TodoForm state: title (the draft of the input component)
    items,     \* TodoItem state per mounted item (keyed by id): isEditing, draft
    reqs,      \* requests in flight (a bag), each with the continuation that awaits it
    acts,      \* number of gestures the user has made so far
    last,      \* history: the step that led to the current state
    held,      \* history: every record value the store has held
    added,     \* history: the add applied last, while nothing was applied after it
    removed    \* history: the identifiers whose successful remove has been applied

vars == <<server, nextId, strictDev, mounted, todos, loading, error, title, items, reqs, acts, last, held, added,
         removed>>

----------------------------------------------------------------------------
(* Bounds of the model *)

\* gestures (typing, clicks, submits) the user makes in one run
MaxActs == 4
\* The store when the page is opened holds no record, or the first record of
\* db.json.
InitSizes == {0, 1}

----------------------------------------------------------------------------
(* Texts *)

SP == " "

\* What a user types into the form: whitespace only, and a title with a
\* leading blank.  The field is empty before typing and after a clear.
FormTyped == { <<SP>>, <<SP, "a">> }

\* What a user types over a draft: whitespace only, the title "a" (of the
\* created and initial records) with a leading blank, "a" itself, and a
\* second title.
DraftTyped == { <<SP>>, <<SP, "a">>, <<"a">>, <<"b">> }

RECURSIVE TrimStart(_)
TrimStart(s) == IF s # <<>> /\ Head(s) = SP THEN TrimStart(Tail(s)) ELSE s

RECURSIVE TrimEnd(_)
TrimEnd(s) ==
    IF s # <<>> /\ s[Len(s)] = SP THEN TrimEnd(SubSeq(s, 1, Len(s) - 1)) ELSE s

\* String.prototype.trim
Trim(s) == TrimEnd(TrimStart(s))

NoError == "null"
LoadError == "Failed to load todos"

----------------------------------------------------------------------------
(* Records and collections *)

Record(id, t, c) == [id |-> id, title |-> t, completed |-> c]

\* db.json as the store holds it when the page is opened: n records, ids 1..n
InitDb(n) ==
    [i \in 1..n |-> Record(i, IF i % 2 = 1 THEN <<"a">> ELSE <<"b">>, i % 2 = 0)]

Ids(coll) == { coll[i].id : i \in DOMAIN coll }

HasId(coll, id) == id \in Ids(coll)

\* the first element of coll carrying id (the caller checks HasId)
Find(coll, id) ==
    coll[CHOOSE i \in DOMAIN coll :
            coll[i].id = id /\ \A j \in DOMAIN coll : coll[j].id = id => i <= j]

PrependCreated(prev, created) == <<created>> \o prev

OnlyCreated(prev, created) == <<created>>

\* (prev) => [...prev, created]
AppendCreated(prev, created) == Append(prev, created)

ReplaceEvery(prev, id, updated) == [i \in DOMAIN prev |-> updated]

\* (prev) => prev.map((t) => (t.id === id ? updated : t))
ReplaceById(prev, id, updated) ==
    [i \in DOMAIN prev |-> IF prev[i].id = id THEN updated ELSE prev[i]]

KeepOnlyId(prev, id) == SelectSeq(prev, LAMBDA t : t.id = id)

\* (prev) => prev.filter((t) => t.id !== id)
FilterOutId(prev, id) == SelectSeq(prev, LAMBDA t : t.id # id)

----------------------------------------------------------------------------
(* Rendering: TodoList maps todos to TodoItems keyed by id.  An item that   *)
(* stays in the list keeps its state, a new key mounts a TodoItem whose     *)
(* draft is seeded from the title, a key that left the list unmounts.      *)

ItemInit(todo) == [isEditing |-> FALSE, draft |-> todo.title]

RenderItems(newTodos, old) ==
    [id \in Ids(newTodos) |->
        IF id \in DOMAIN old THEN old[id] ELSE ItemInit(Find(newTodos, id))]

\* A continuation of save() whose TodoItem has been unmounted sets the state
\* of no mounted item.
OrphanOne(r, newTodos) ==
    IF r.op = "edit" /\ ~HasId(newTodos, r.id) THEN [r EXCEPT !.alive = FALSE] ELSE r

Orphan(rs, newTodos) ==
    LET Alive(n) == [n EXCEPT !.alive = TRUE]
        Copies(n) ==
            CopiesIn(n, rs)
            + (IF ~n.alive /\ OrphanOne(Alive(n), newTodos) = n
               THEN CopiesIn(Alive(n), rs) ELSE 0)
    IN  [n \in { OrphanOne(r, newTodos) : r \in BagToSet(rs) } |-> Copies(n)]

----------------------------------------------------------------------------
(* Requests *)

Request(op, id, t, c) ==
    [op |-> op, id |-> id, title |-> t, completed |-> c,
     phase |-> "sent", resp |-> <<>>, alive |-> TRUE]

\* The history variable names the last step when it is a gesture that may
\* call a handler or the continuation of a handler, with its outcome.
Recorded == {"load", "add", "toggle", "edit", "delete", "submit", "save"}

Step(op, id, ok) ==
    IF op \in Recorded THEN [op |-> op, ok |-> ok] ELSE [op |-> "other", ok |-> TRUE]

\* main.jsx renders <App /> inside <React.StrictMode>: a development build
\* runs every mount effect twice, a production build once.
EffectRuns == IF strictDev THEN 2 ELSE 1


Init ==
    /\ \E n \in InitSizes : server = InitDb(n) /\ nextId = n + 1
    /\ held = { server[i] : i \in DOMAIN server }
    /\ added = <<>>
    /\ removed = {}
    /\ strictDev \in BOOLEAN
    /\ mounted = FALSE
    /\ todos = <<>>
    /\ loading = TRUE
    /\ error = NoError
    /\ title = <<>>
    /\ items = <<>>
    /\ reqs = EmptyBag
    /\ acts = 0
    /\ last = Step("init", 0, TRUE)

----------------------------------------------------------------------------
(* App: the mount effect (App.jsx 11-23), up to its await.  Each run of    *)
(* the effect calls setLoading(true) and then listTodos().                 *)

Mount ==
    /\ ~mounted
    /\ mounted' = TRUE
    /\ loading' = TRUE
    /\ reqs' = [r \in { Request("list", 0, <<>>, FALSE) } |-> EffectRuns]
    /\ last' = Step("mount", 0, TRUE)
    /\ UNCHANGED <<added, acts, removed, held, server, nextId, strictDev, todos, error, title, items>>

----------------------------------------------------------------------------
(* The store (json-server behind fetch).  It answers one request at a      *)
(* time.  Any request may be refused (a non-2xx status, res.ok false)      *)
(* without a change to the store.                                          *)

Without(r) == reqs (-) SetToBag({r})

Answer(r, phase, resp) ==
    Without(r) (+) SetToBag({ [r EXCEPT !.phase = phase, !.resp = resp] })

\* PATCH /todos/:id with { completed } or { title }
Patched(rec, r) ==
    IF r.op = "toggle" THEN [rec EXCEPT !.completed = r.completed]
    ELSE [rec EXCEPT !.title = r.title]

ServerRefuse(r) ==
    /\ BagIn(r, reqs) /\ r.phase = "sent"
    /\ reqs' = Answer(r, "fail", <<>>)
    /\ last' = Step("refuse", r.id, FALSE)
    /\ UNCHANGED <<added, acts, removed, held, server, nextId, strictDev, mounted, todos, loading, error, title,
                   items>>

\* GET /todos
ServerList(r) ==
    /\ BagIn(r, reqs) /\ r.phase = "sent" /\ r.op = "list"
    /\ reqs' = Answer(r, "ok", server)
    /\ last' = Step("serve", 0, TRUE)
    /\ UNCHANGED <<added, acts, removed, held, server, nextId, strictDev, mounted, todos, loading, error, title,
                   items>>

\* POST /todos { title, completed: false }
ServerCreate(r) ==
    /\ BagIn(r, reqs) /\ r.phase = "sent" /\ r.op = "create"
    /\ LET created == Record(nextId, r.title, FALSE) IN
        /\ server' = Append(server, created)
        /\ held' = held \cup {created}
        /\ reqs' = Answer(r, "ok", <<created>>)
        /\ last' = Step("serve", nextId, TRUE)
    /\ nextId' = nextId + 1
    /\ UNCHANGED <<added, acts, removed, strictDev, mounted, todos, loading, error, title, items>>

\* PATCH /todos/:id ; an unknown id is a 404, served by ServerRefuse
ServerUpdate(r) ==
    /\ BagIn(r, reqs) /\ r.phase = "sent" /\ r.op \in {"toggle", "edit"}
    /\ HasId(server, r.id)
    /\ LET updated == Patched(Find(server, r.id), r) IN
        /\ server' = ReplaceById(server, r.id, updated)
        /\ held' = held \cup {updated}
        /\ reqs' = Answer(r, "ok", <<updated>>)
    /\ last' = Step("serve", r.id, TRUE)
    /\ UNCHANGED <<added, acts, removed, nextId, strictDev, mounted, todos, loading, error, title, items>>

\* DELETE /todos/:id ; the status for an id the store no longer holds is the
\* store's choice (404 by ServerRefuse, or 2xx here: DELETE is idempotent)
ServerDelete(r) ==
    /\ BagIn(r, reqs) /\ r.phase = "sent" /\ r.op = "delete"
    /\ server' = FilterOutId(server, r.id)
    /\ reqs' = Answer(r, "ok", <<>>)
    /\ last' = Step("serve", r.id, TRUE)
    /\ UNCHANGED <<added, acts, removed, held, nextId, strictDev, mounted, todos, loading, error, title, items>>

----------------------------------------------------------------------------
(* Issuing a request: the part of a handler up to its await.  api.js sends  *)
(* the fetch; the caller is suspended until the response is delivered.     *)

\* updateTodo / createTodo / deleteTodo up to `await fetch(...)`
Send(op, id, t, c) ==
    reqs' = reqs (+) SetToBag({ Request(op, id, t, c) })

\* the form and the list are rendered only when loading is false (App.jsx 50-63)
Shown == mounted /\ ~loading

\* a gesture of the user on what is shown
Gesture ==
    /\ Shown
    /\ acts < MaxActs
    /\ acts' = acts + 1
    /\ UNCHANGED <<held, added, removed>>

----------------------------------------------------------------------------
(* TodoForm *)

\* onChange={(e) => setTitle(e.target.value)}
FormChange(t) ==
    /\ Gesture /\ t # title
    /\ title' = t
    /\ last' = Step("type", 0, FALSE)
    /\ UNCHANGED <<server, nextId, strictDev, mounted, todos, loading, error, items,
                   reqs>>

SubmitRejectsEmptyOnly(t) == t = <<>>

\* submit guard: if (!title.trim()) return
SubmitRejects(t) == Trim(t) = <<>>

\* submit(e), up to `await onAdd(title.trim())`; handleAdd up to its await
Submit ==
    /\ Gesture
    /\ IF SubmitRejects(title)
       THEN /\ last' = Step("submit", 0, FALSE)
            /\ UNCHANGED reqs
       ELSE /\ Send("create", 0, Trim(title), FALSE)
            /\ last' = Step("submit", 0, TRUE)
    /\ UNCHANGED <<server, nextId, strictDev, mounted, todos, loading, error, title, items>>

----------------------------------------------------------------------------
(* TodoItem: the row at position i of the list, its state under its key    *)

ToggleClickOptimistic(i) ==
    /\ Gesture /\ i \in DOMAIN todos
    /\ Send("toggle", todos[i].id, <<>>, ~todos[i].completed)
    /\ todos' = [todos EXCEPT ![i].completed = ~todos[i].completed]
    /\ last' = Step("toggleClick", todos[i].id, TRUE)
    /\ UNCHANGED <<server, nextId, strictDev, mounted, loading, error, title, items>>

Untoggled(todo) == todo.completed

\* the value the checkbox hands to onToggle: !todo.completed
Toggled(todo) == ~todo.completed

\* onChange={() => onToggle(todo.id, !todo.completed)} ; handleToggle up to its await
ToggleClick(i) ==
    /\ Gesture /\ i \in DOMAIN todos
    /\ Send("toggle", todos[i].id, <<>>, Toggled(todos[i]))
    /\ last' = Step("toggleClick", todos[i].id, TRUE)
    /\ UNCHANGED <<server, nextId, strictDev, mounted, todos, loading, error, title, items>>

\* onClick={() => onDelete(todo.id)} ; handleDelete up to its await
DeleteClick(i) ==
    /\ Gesture /\ i \in DOMAIN todos
    /\ Send("delete", todos[i].id, <<>>, FALSE)
    /\ last' = Step("deleteClick", todos[i].id, TRUE)
    /\ UNCHANGED <<server, nextId, strictDev, mounted, todos, loading, error, title, items>>

\* onClick={() => setIsEditing(true)}
EditClick(i) ==
    /\ Gesture /\ i \in DOMAIN todos
    /\ ~items[todos[i].id].isEditing
    /\ items' = [items EXCEPT ![todos[i].id].isEditing = TRUE]
    /\ last' = Step("editClick", todos[i].id, FALSE)
    /\ UNCHANGED <<server, nextId, strictDev, mounted, todos, loading, error, title,
                   reqs>>

\* onChange={(e) => setDraft(e.target.value)}
DraftChange(i, t) ==
    /\ Gesture /\ i \in DOMAIN todos
    /\ items[todos[i].id].isEditing
    /\ t # items[todos[i].id].draft
    /\ items' = [items EXCEPT ![todos[i].id].draft = t]
    /\ last' = Step("draft", todos[i].id, FALSE)
    /\ UNCHANGED <<server, nextId, strictDev, mounted, todos, loading, error, title,
                   reqs>>

SaveCallsUncompared(draft, todo) == Trim(draft) # <<>>

\* save guard: draft.trim() && draft !== todo.title
SaveCalls(draft, todo) == Trim(draft) # <<>> /\ draft # todo.title

\* save(), up to `await onEdit(todo.id, draft.trim())` ; handleEdit up to its await.
\* Without a call setIsEditing(false) runs at once.
Save(i) ==
    /\ Gesture /\ i \in DOMAIN todos
    /\ items[todos[i].id].isEditing
    /\ IF SaveCalls(items[todos[i].id].draft, todos[i])
       THEN /\ Send("edit", todos[i].id, Trim(items[todos[i].id].draft), FALSE)
            /\ last' = Step("save", todos[i].id, TRUE)
            /\ UNCHANGED items
       ELSE /\ items' = [items EXCEPT ![todos[i].id].isEditing = FALSE]
            /\ last' = Step("save", todos[i].id, FALSE)
            /\ UNCHANGED reqs
    /\ UNCHANGED <<server, nextId, strictDev, mounted, todos, loading, error, title>>

\* onClick={() => { setIsEditing(false); setDraft(todo.title); }}
Cancel(i) ==
    /\ Gesture /\ i \in DOMAIN todos
    /\ items[todos[i].id].isEditing
    /\ items' = [items EXCEPT ![todos[i].id] = [isEditing |-> FALSE, draft |-> todos[i].title]]
    /\ last' = Step("cancel", todos[i].id, FALSE)
    /\ UNCHANGED <<server, nextId, strictDev, mounted, todos, loading, error, title,
                   reqs>>

----------------------------------------------------------------------------
(* Continuations: what runs when a response is delivered.  api.js throws   *)
(* on !res.ok, which rejects the handler at its await: nothing after the   *)
(* await runs.                                                            *)

Delivered(r) == BagIn(r, reqs) /\ r.phase # "sent"

ThrowsButDelete(r) == r.phase = "fail" /\ r.op # "delete"

\* api.js: if (!res.ok) throw new Error(...)
Throws(r) == r.phase = "fail"

\* setTodos(...) followed by the render it causes
SetTodos(newTodos, rest) ==
    /\ todos' = newTodos
    /\ items' = RenderItems(newTodos, items)
    /\ reqs' = Orphan(rest, newTodos)

\* App.jsx 15-21: data = await listTodos(); setTodos(data) / catch setError /
\* finally setLoading(false)
LoadResolve(r) ==
    /\ Delivered(r) /\ r.op = "list"
    /\ IF ~Throws(r)
       THEN /\ SetTodos(r.resp, Without(r))
            /\ UNCHANGED error
       ELSE /\ error' = LoadError
            /\ SetTodos(todos, Without(r))
    /\ loading' = FALSE
    /\ added' = <<>>
    /\ last' = Step("load", 0, r.phase = "ok")
    /\ UNCHANGED <<acts, removed, held, server, nextId, strictDev, mounted, title>>

FieldClearedAlways(r, t) == <<>>

\* submit after `await onAdd(title.trim())`: setTitle("") runs when the call
\* resolved; a rejection leaves submit at the await (no try/catch/finally)
FieldAfterAdd(r, t) == IF Throws(r) THEN t ELSE <<>>

\* handleAdd after its await: setTodos((prev) => [...prev, created]) ; then
\* submit after its await: setTitle("")
HandleAddResolve(r) ==
    /\ Delivered(r) /\ r.op = "create"
    /\ IF ~Throws(r)
       THEN /\ SetTodos(AppendCreated(todos, r.resp[1]), Without(r))
            /\ added' = <<[pre |-> todos, id |-> r.resp[1].id]>>
       ELSE /\ reqs' = Without(r)
            /\ UNCHANGED <<todos, items, added>>
    /\ title' = FieldAfterAdd(r, title)
    /\ last' = Step("add", IF r.phase = "ok" THEN r.resp[1].id ELSE 0, r.phase = "ok")
    /\ UNCHANGED <<acts, removed, held, server, nextId, strictDev, mounted, loading, error>>

UpdatedFromPatch(r) == Record(r.id, r.title, r.completed)

\* const updated = await updateTodo(id, patch): the body of the response
Updated(r) == r.resp[1]

\* handleToggle after its await
HandleToggleResolve(r) ==
    /\ Delivered(r) /\ r.op = "toggle"
    /\ IF ~Throws(r)
       THEN /\ SetTodos(ReplaceById(todos, r.id, Updated(r)), Without(r))
            /\ added' = <<>>
       ELSE /\ reqs' = Without(r)
            /\ UNCHANGED <<todos, items, added>>
    /\ last' = Step("toggle", r.id, r.phase = "ok")
    /\ UNCHANGED <<acts, removed, held, server, nextId, strictDev, mounted, loading, error, title>>

ExitEditNever(its, r) == its

\* save after its await: setIsEditing(false), on the TodoItem that called
ExitEdit(its, r) ==
    IF r.alive /\ r.id \in DOMAIN its THEN [its EXCEPT ![r.id].isEditing = FALSE] ELSE its

\* handleEdit after its await, then save after its await
HandleEditResolve(r) ==
    /\ Delivered(r) /\ r.op = "edit"
    /\ IF ~Throws(r)
       THEN /\ todos' = ReplaceById(todos, r.id, Updated(r))
            /\ items' = ExitEdit(RenderItems(todos', items), r)
            /\ reqs' = Orphan(Without(r), todos')
            /\ added' = <<>>
       ELSE /\ reqs' = Without(r)
            /\ UNCHANGED <<todos, items, added>>
    /\ last' = Step("edit", r.id, r.phase = "ok")
    /\ UNCHANGED <<acts, removed, held, server, nextId, strictDev, mounted, loading, error, title>>

\* handleDelete after its await
HandleDeleteResolve(r) ==
    /\ Delivered(r) /\ r.op = "delete"
    /\ IF ~Throws(r)
       THEN /\ SetTodos(FilterOutId(todos, r.id), Without(r))
            /\ added' = <<>>
            /\ removed' = removed \cup {r.id}
       ELSE /\ reqs' = Without(r)
            /\ UNCHANGED <<todos, items, added, removed>>
    /\ last' = Step("delete", r.id, r.phase = "ok")
    /\ UNCHANGED <<acts, held, server, nextId, strictDev, mounted, loading, error, title>>

----------------------------------------------------------------------------

(* One step of the system: the store answers some request in flight, some *)
(* response is delivered to its continuation, or the user makes a gesture.  *)

StoreRefuses == \E r \in BagToSet(reqs) : ServerRefuse(r)
StoreLists == \E r \in BagToSet(reqs) : ServerList(r)
StoreCreates == \E r \in BagToSet(reqs) : ServerCreate(r)
StoreUpdates == \E r \in BagToSet(reqs) : ServerUpdate(r)
StoreDeletes == \E r \in BagToSet(reqs) : ServerDelete(r)

LoadResolves == \E r \in BagToSet(reqs) : LoadResolve(r)
AddResolves == \E r \in BagToSet(reqs) : HandleAddResolve(r)
ToggleResolves == \E r \in BagToSet(reqs) : HandleToggleResolve(r)
EditResolves == \E r \in BagToSet(reqs) : HandleEditResolve(r)
DeleteResolves == \E r \in BagToSet(reqs) : HandleDeleteResolve(r)

UserTypesTitle == \E t \in FormTyped : FormChange(t)
UserToggles == \E i \in DOMAIN todos : ToggleClick(i)
UserDeletes == \E i \in DOMAIN todos : DeleteClick(i)
UserEdits == \E i \in DOMAIN todos : EditClick(i)
UserTypesDraft == \E i \in DOMAIN todos : \E t \in DraftTyped : DraftChange(i, t)
UserSaves == \E i \in DOMAIN todos : Save(i)
UserCancels == \E i \in DOMAIN todos : Cancel(i)

Next ==
    \/ Mount
    \/ StoreRefuses
    \/ StoreLists
    \/ StoreCreates
    \/ StoreUpdates
    \/ StoreDeletes
    \/ LoadResolves
    \/ AddResolves
    \/ ToggleResolves
    \/ EditResolves
    \/ DeleteResolves
    \/ UserTypesTitle
    \/ Submit
    \/ UserToggles
    \/ UserDeletes
    \/ UserEdits
    \/ UserTypesDraft
    \/ UserSaves
    \/ UserCancels

Spec == Init /\ [][Next]_vars

----------------------------------------------------------------------------
(* Properties *)

MutationOps == {"add", "toggle", "edit", "delete"}

InFlight == BagToSet(reqs)

\* the step consumed one copy of request r
Consumed(r) == CopiesIn(r, reqs') = CopiesIn(r, reqs) - 1

(* C1: when the transport call of add, toggleComplete, editTitle or remove  *)
(* ends with a non-success status, the step that delivers the rejection     *)
(* leaves the collection, the error message and the loading flag as they    *)
(* were: nothing of the operation is applied.                               *)
C1_RejectedOperationChangesNothing ==
    [][ (last'.op \in MutationOps /\ ~last'.ok)
            => (todos' = todos /\ error' = error /\ loading' = loading) ]_vars

\* a rejected mutation has been delivered to a root holding records
C1_Witness == last.op \in MutationOps /\ ~last.ok /\ todos # <<>>

(* C2: a submit with a non-empty trimmed title sends a create carrying the  *)
(* trimmed title, and when its successful response is applied the           *)
(* collection is the old collection with one record appended whose title is *)
(* the title the request carried, whatever else is in flight.               *)
C2_AddAppendsTrimmedTitle ==
    [][ /\ (last'.op = "submit" /\ ~SubmitRejects(title))
            => /\ Trim(title) # <<>>
               /\ reqs' = reqs (+) SetToBag({ Request("create", 0, Trim(title), FALSE) })
        /\ (last'.op = "add" /\ last'.ok)
            => /\ Len(todos') = Len(todos) + 1
               /\ SubSeq(todos', 1, Len(todos)) = todos
               /\ \E r \in InFlight :
                    /\ r.op = "create" /\ r.phase = "ok" /\ Consumed(r)
                    /\ r.title # <<>> /\ Trim(r.title) = r.title
                    /\ todos'[Len(todos')].title = r.title ]_vars

\* a create response has been applied behind an earlier record while another
\* request was in flight
C2_Witness ==
    /\ last.op = "add" /\ last.ok
    /\ Len(todos) >= 2
    /\ reqs # EmptyBag

(* C3: a submit whose draft is empty or whitespace-only sends no request    *)
(* and leaves the collection unchanged.                                     *)
C3_BlankSubmitIsNoOp ==
    [][ (last'.op = "submit" /\ Trim(title) = <<>>)
            => (reqs' = reqs /\ todos' = todos) ]_vars

\* a whitespace-only draft has been submitted
C3_Witness == last.op = "submit" /\ ~last.ok /\ title = <<SP>>

(* C4: when a confirmed toggleComplete for a record of the collection is  *)
(* applied, only the element with that identifier changes and its           *)
(* completed state is flipped; the other elements, the length and the order *)
(* are unchanged.  This is the claim as stated, read on a production build *)
(* (one load), so that the second load of a development build plays no part.*)
C4_ToggleFlipsOnlyTarget ==
    [][ \A r \in InFlight :
            (~strictDev /\ last'.op = "toggle" /\ last'.ok /\ r.op = "toggle" /\ r.phase = "ok"
                /\ Consumed(r) /\ HasId(todos, r.id))
            => /\ Len(todos') = Len(todos)
               /\ \A i \in DOMAIN todos :
                    IF todos[i].id = r.id
                    THEN /\ todos'[i].id = r.id
                         /\ todos'[i].completed = ~todos[i].completed
                    ELSE todos'[i] = todos[i] ]_vars

(* C4 as amended: when a confirmed toggleComplete for a record of the       *)
(* collection is applied, only the elements with that identifier change:    *)
(* each becomes the record the store returned, whose completed state is the *)
(* value the request carried; the other elements, the length and the order  *)
(* are unchanged.                                                           *)
C4_ToggleReplacesOnlyTarget ==
    [][ \A r \in InFlight :
            (last'.op = "toggle" /\ last'.ok /\ r.op = "toggle" /\ r.phase = "ok"
                /\ Consumed(r) /\ HasId(todos, r.id))
            => /\ Len(todos') = Len(todos)
               /\ \A i \in DOMAIN todos :
                    IF todos[i].id = r.id
                    THEN /\ todos'[i] = r.resp[1]
                         /\ todos'[i].id = r.id
                         /\ todos'[i].completed = r.completed
                    ELSE todos'[i] = todos[i] ]_vars

\* a toggle response has been applied to one of two records
C4_Witness ==
    /\ last.op = "toggle" /\ last.ok
    /\ \E i, j \in DOMAIN todos : todos[i].completed /\ ~todos[j].completed

(* C5: Save on an item whose draft equals the record's current title, or    *)
(* whose draft is empty or whitespace-only, sends no request and leaves the *)
(* collection unchanged.                                                    *)
C5_SaveOfSameOrBlankIsNoOp ==
    [][ \A i \in DOMAIN todos :
            (Save(i) /\ (\/ items[todos[i].id].draft = todos[i].title
                         \/ Trim(items[todos[i].id].draft) = <<>>))
            => (reqs' = reqs /\ todos' = todos) ]_vars

\* Save has been pressed on a whitespace-only draft: the item left edit mode
\* with the draft still in place
C5_Witness ==
    /\ last.op = "save" /\ ~last.ok
    /\ \E id \in DOMAIN items : ~items[id].isEditing /\ items[id].draft = <<SP>>

\* the elements of s whose identifier is not id, in order
RECURSIVE Others(_, _)
Others(s, id) ==
    IF s = <<>> THEN <<>>
    ELSE IF Head(s).id = id THEN Others(Tail(s), id)
    ELSE <<Head(s)>> \o Others(Tail(s), id)

Occurrences(s, id) == Cardinality({ i \in DOMAIN s : s[i].id = id })

(* C6: every successful remove(id), a second remove of the same identifier  *)
(* included, leaves a collection exactly one element shorter, with no       *)
(* element of that identifier and the remaining elements in place.  This is *)
(* the claim as stated, read on a production build (one load), so that the  *)
(* second load of a development build plays no part.                        *)
C6_RemoveDropsExactlyOne ==
    [][ \A r \in InFlight :
            (~strictDev /\ last'.op = "delete" /\ last'.ok /\ r.op = "delete" /\ r.phase = "ok"
                /\ Consumed(r))
            => /\ Len(todos') = Len(todos) - 1
               /\ ~HasId(todos', r.id)
               /\ todos' = Others(todos, r.id) ]_vars

(* C6 as amended: a successful remove(id) leaves a collection with no       *)
(* element of that identifier and the remaining elements with their values  *)
(* and order; it is shorter by the number of elements that carried the      *)
(* identifier when the removal was applied: one when the record was there,  *)
(* none when an earlier remove had already dropped it.                      *)
C6_RemoveDropsTheIdentifier ==
    [][ \A r \in InFlight :
            (last'.op = "delete" /\ last'.ok /\ r.op = "delete" /\ r.phase = "ok"
                /\ Consumed(r))
            => /\ Len(todos') = Len(todos) - Occurrences(todos, r.id)
               /\ ~HasId(todos', r.id)
               /\ todos' = Others(todos, r.id) ]_vars

\* a removal has been applied and left another record in the collection
C6_Witness ==
    /\ last.op = "delete" /\ last.ok
    /\ todos # <<>>

(* C7: a successful add followed by a successful remove of the identifier  *)
(* the store gave the new record, with nothing applied in between, yields   *)
(* the collection as it was before the add.                                 *)
C7_AddThenRemoveRestores ==
    [][ \A r \in InFlight :
            (last'.op = "delete" /\ last'.ok /\ r.op = "delete" /\ r.phase = "ok"
                /\ Consumed(r) /\ added # <<>> /\ r.id = added[1].id)
            => todos' = added[1].pre ]_vars

\* requests of the mount effect still in flight
Loads == { r \in InFlight : r.op = "list" }

LoadsInFlight == BagCardinality([r \in Loads |-> CopiesIn(r, reqs)])

\* the claim's conditions on a state
OneLoadHoldsLoading ==
    /\ LoadsInFlight <= 1
    /\ (LoadsInFlight > 0 => loading)
    /\ (mounted /\ LoadsInFlight = 0 => ~loading)

(* C8: the mount issues exactly one list request; loading is set for as     *)
(* long as that request is pending; on success the collection becomes the   *)
(* returned list; in every case loading is cleared once the request has     *)
(* completed and is never set again.                                        *)
C8_OneLoadPerMount ==
    [][ /\ OneLoadHoldsLoading
        /\ OneLoadHoldsLoading'
        /\ (last'.op = "load" /\ last'.ok)
            => \E r \in Loads : r.phase = "ok" /\ Consumed(r) /\ todos' = r.resp
        /\ (mounted /\ ~loading) => ~loading' ]_vars

(* C9: when the initial list request fails, the error message is recorded,  *)
(* the loading flag goes from set to cleared, the collection is empty at    *)
(* that point, and the error message stays set in every later state.        *)
C9_FailedLoadShowsErrorOnEmpty ==
    [][ /\ (last'.op = "load" /\ ~last'.ok)
            => (error' = LoadError /\ loading /\ ~loading' /\ todos' = <<>>)
        /\ (error # NoError => error' = error) ]_vars

(* C10: whenever nothing is in flight, each record of the collection equals *)
(* the store's current record with the same identifier, for any order of    *)
(* requests and responses.  This is the claim as stated, read on a          *)
(* production build (one load), so that the second load of a development    *)
(* build plays no part.                                                     *)
C10_CollectionMirrorsStore ==
    (~strictDev /\ mounted /\ reqs = EmptyBag)
        => \A i \in DOMAIN todos :
            /\ HasId(server, todos[i].id)
            /\ Find(server, todos[i].id) = todos[i]

(* C10 as amended: in every state each record of the collection is a value  *)
(* the store has held under that identifier (the body of some response),    *)
(* never a value made by the client; it need not be the store's current     *)
(* value, since responses are applied in the order they arrive.             *)
C10_CollectionHoldsStoreValues ==
    \A i \in DOMAIN todos : todos[i] \in held

\* nothing is in flight and a record of the collection differs from the
\* store's current record of the same identifier
C10_Witness ==
    /\ mounted /\ reqs = EmptyBag
    /\ \E i \in DOMAIN todos :
        /\ HasId(server, todos[i].id)
        /\ Find(server, todos[i].id) # todos[i]

\* the continuation that applies the response of each kind of request
Applies == [create |-> "add", toggle |-> "toggle", edit |-> "edit", delete |-> "delete",
            list |-> "load"]

(* C11: the collection changes only in a step that delivers the successful  *)
(* response of a request to its own continuation: the step that issues an   *)
(* add, toggle, edit or remove request, the store's answering it, and the   *)
(* delivery of a rejection all leave the collection as it was.              *)
C11_ChangeOnlyOnOwnSuccess ==
    [][ todos' # todos
            => \E r \in InFlight :
                /\ r.phase = "ok" /\ Consumed(r)
                /\ last'.ok /\ last'.op = Applies[r.op] ]_vars

\* the store has answered an update and the collection still holds the
\* record as it was before the request
C11_Witness ==
    \E r \in InFlight :
        /\ r.op \in {"toggle", "edit"} /\ r.phase = "ok"
        /\ HasId(todos, r.id)
        /\ Find(todos, r.id) # r.resp[1]
        /\ Find(server, r.id) = r.resp[1]

\* the identifier a mutation response is about
Target(r) == IF r.op = "create" THEN r.resp[1].id ELSE r.id

(* C12: a successful mutation response is applied to the collection as it   *)
(* is when the response is delivered: the elements with another identifier  *)
(* are kept with the values and order they have at that moment, whatever    *)
(* other responses were applied since the request was issued; after an      *)
(* update every element with the identifier is the record of the response   *)
(* applied last, after an add the created record is in the collection,      *)
(* after a remove no element has the identifier.                            *)
C12_AppliedToCurrentCollection ==
    [][ \A r \in InFlight :
            (r.phase = "ok" /\ Consumed(r) /\ last'.ok
                /\ last'.op \in MutationOps /\ last'.op = Applies[r.op])
            => /\ Others(todos', Target(r)) = Others(todos, Target(r))
               /\ r.op \in {"toggle", "edit"}
                    => /\ Len(todos') = Len(todos)
                       /\ \A i \in DOMAIN todos' :
                            todos'[i].id = r.id => todos'[i] = r.resp[1]
               /\ r.op = "create" => \E i \in DOMAIN todos' : todos'[i] = r.resp[1]
               /\ r.op = "delete" => ~HasId(todos', r.id) ]_vars

\* an update response has been applied while the successful response of an
\* add, issued before it, is still to be delivered
C12_Witness ==
    /\ last.op \in {"toggle", "edit"} /\ last.ok
    /\ todos # <<>>
    /\ \E r \in InFlight : r.op = "create" /\ r.phase = "ok"

(* C13: the form's field is cleared by the step that delivers a successful  *)
(* add, whatever it holds then; the submit itself and the delivery of a     *)
(* rejected add leave the field as it is, so that after a failed create it  *)
(* still holds what the user submitted (or typed since).                    *)
C13_FieldClearedOnSuccessOnly ==
    [][ /\ (last'.op = "add" /\ last'.ok) => title' = <<>>
        /\ (last'.op = "add" /\ ~last'.ok) => title' = title
        /\ last'.op = "submit" => title' = title ]_vars

\* a rejected create has been delivered and the field still holds the text
\* whose trimmed form the request carried
C13_Witness ==
    /\ last.op = "add" /\ ~last.ok
    /\ title = <<SP, "a">>

(* C14: a Save that invokes no edit callback takes the item out of edit     *)
(* mode at once, and the delivery of the response of a Save's request,      *)
(* successful or not, leaves the item that issued it out of edit mode.      *)
(* This is the claim as stated, read on a production build (one load).      *)
C14_SaveAlwaysExits ==
    [][ /\ \A i \in DOMAIN todos :
            (Save(i) /\ ~SaveCalls(items[todos[i].id].draft, todos[i]))
                => ~items'[todos[i].id].isEditing
        /\ \A r \in InFlight :
            (~strictDev /\ last'.op = "edit" /\ r.op = "edit" /\ r.phase # "sent"
                /\ Consumed(r) /\ r.alive /\ r.id \in DOMAIN items')
            => ~items'[r.id].isEditing ]_vars

(* C14 as amended: a Save that invokes no edit callback takes the item out  *)
(* of edit mode at once; the delivery of a successful edit response takes   *)
(* the item that issued the Save out of edit mode; the delivery of a        *)
(* rejection leaves every item's edit-mode flag and draft as they are.      *)
C14_SaveExitsUnlessRejected ==
    [][ /\ \A i \in DOMAIN todos :
            (Save(i) /\ ~SaveCalls(items[todos[i].id].draft, todos[i]))
                => ~items'[todos[i].id].isEditing
        /\ \A r \in InFlight :
            (last'.op = "edit" /\ r.op = "edit" /\ r.phase = "ok"
                /\ Consumed(r) /\ r.alive /\ r.id \in DOMAIN items')
            => ~items'[r.id].isEditing
        /\ (last'.op = "edit" /\ ~last'.ok) => items' = items ]_vars

\* the rejection of a Save's request has been delivered and the item is
\* still in edit mode
C14_Witness ==
    /\ last.op = "edit" /\ ~last.ok
    /\ \E id \in DOMAIN items : items[id].isEditing

(* C15: whenever an item enters edit mode (Edit is clicked), its draft is   *)
(* the record's current title.  Read on a production build (one load).      *)
C15_DraftIsTitleOnEntry ==
    [][ \A i \in DOMAIN todos :
            (~strictDev /\ EditClick(i))
                => /\ items'[todos[i].id].isEditing
                   /\ items'[todos[i].id].draft = todos[i].title ]_vars

(* C16: a click on a checkbox adds one update request carrying the negation *)
(* of the completed value the collection holds for the record at that       *)
(* moment, even when the same request is already in flight, and leaves the  *)
(* collection as it is; when a successful toggle response is applied the    *)
(* record's completed state is the value its request carried, so two clicks *)
(* made before the first response leave the negation of the original value. *)
C16_ToggleSendsNegationEachClick ==
    [][ /\ \A i \in DOMAIN todos :
            ToggleClick(i)
                => /\ reqs' = reqs (+) SetToBag({
                            Request("toggle", todos[i].id, <<>>, ~todos[i].completed) })
                   /\ todos' = todos
        /\ \A r \in InFlight :
            (last'.op = "toggle" /\ last'.ok /\ r.op = "toggle" /\ r.phase = "ok"
                /\ Consumed(r))
            => \A i \in DOMAIN todos' :
                    todos'[i].id = r.id => todos'[i].completed = r.completed ]_vars

\* of two clicks made before any response, the first response has been
\* applied and the second, carrying the same value, is still to be delivered
C16_Witness ==
    /\ last.op = "toggle" /\ last.ok
    /\ \E r \in InFlight :
        /\ r.op = "toggle" /\ r.phase = "ok"
        /\ HasId(todos, r.id)
        /\ Find(todos, r.id).completed = r.completed
        /\ r.completed

(* C17: every update request a Save issues carries a title that is          *)
(* non-empty, has no leading or trailing blank, and differs from the title  *)
(* the collection holds for the record when Save is pressed.  Read on a     *)
(* production build (one load).                                             *)
C17_SaveSendsChangedTrimmedTitle ==
    [][ \A i \in DOMAIN todos :
            (~strictDev /\ Save(i))
            => \A r \in BagToSet(reqs') :
                    CopiesIn(r, reqs') > CopiesIn(r, reqs)
                    => /\ r.op = "edit" /\ r.id = todos[i].id
                       /\ r.title # <<>>
                       /\ Trim(r.title) = r.title
                       /\ r.title # todos[i].title ]_vars

(* C18: while loading is set no add, toggle, edit or remove request is      *)
(* issued (the only requests sent are list requests), and every list        *)
(* response that is applied is applied while loading is still set, to the   *)
(* empty collection: it is the first change and overwrites no mutation.     *)
C18_LoadIsFirstChange ==
    [][ /\ loading
            => \A r \in BagToSet(reqs') :
                    (r.phase = "sent" /\ CopiesIn(r, reqs') > CopiesIn(r, reqs))
                        => r.op = "list"
        /\ (last'.op = "load" /\ last'.ok)
            => (loading /\ todos = <<>> /\ acts = 0) ]_vars

(* C19: in every state no two records of the collection have the same       *)
(* identifier.                                                              *)
C19_IdentifiersUnique ==
    \A i, j \in DOMAIN todos : todos[i].id = todos[j].id => i = j

(* C20: no record of the collection carries an identifier whose successful  *)
(* remove has been applied, whatever arrives afterwards.                    *)
C20_RemovedStaysRemoved ==
    \A i \in DOMAIN todos : todos[i].id \notin removed

====
